---- MODULE Spec2Model ----
(***************************************************************************)
(* Battery-Sim-Python: the request-to-chart-data pipeline of lab2.py and   *)
(* the helpers of utils.py (parameter merge, rate sweep, series reducers). *)
(*                                                                         *)
(* Python values are modelled as follows.                                  *)
(*   number   Num(r), r an exact rational [n, d] in lowest terms           *)
(*   str      Str(s)                                                       *)
(*   None     None                                                         *)
(*   list     List(seq)      (a record holding the items)                  *)
(*   dict     a TLA+ record / function from keys to values                 *)
(* Four specifications share the variables: SpecParams drives              *)
(* update_parameters, SpecCycle the two per-cycle reducers, SpecSweep      *)
(* run_charging_experiments and Spec the request handler simulate_lab2.    *)
(***************************************************************************)
EXTENDS Integers, Sequences, FiniteSets, TLC

VARIABLES
    pc,           \* the statement the running function is at
    args,         \* the arguments of the call, as passed
    parameters,   \* the ParameterSet (mutated in place)
    locals,       \* the local variables of the running function
    solverCalls,  \* the solver invocations made so far, in order
    result,       \* the value returned
    exc           \* the exception raised, None when none was

vars == <<pc, args, parameters, locals, solverCalls, result, exc>>

----------------------------------------------------------------------------
(* Bounds of the model.                                                    *)

\* silicon percentages are drawn from the grid k / PGrid, k = 0 .. PGrid
PGrid == 4
\* a Solution holds at most MaxCycles cycles
MaxCycles == 3
\* a cycle holds at most MaxSamples samples per variable
MaxSamples == 3
\* requested cycle counts are 0 .. MaxRequested
MaxRequested == 3
\* a rate sweep is asked for at most MaxRates rates
MaxRates == 2

----------------------------------------------------------------------------
(* Python values.                                                          *)

RECURSIVE GCD(_, _)
GCD(a, b) == IF b = 0 THEN a ELSE GCD(b, a % b)

Abs(x) == IF x < 0 THEN -x ELSE x

\* the rational n/d (d # 0) in lowest terms with a positive denominator
R(n, d) ==
    LET g == GCD(Abs(n), Abs(d))
        s == IF d < 0 THEN -1 ELSE 1
    IN  [n |-> (s * n) \div g, d |-> (s * d) \div g]

RAdd(a, b) == R(a.n * b.d + b.n * a.d, a.d * b.d)
RSub(a, b) == R(a.n * b.d - b.n * a.d, a.d * b.d)
RMul(a, b) == R(a.n * b.n, a.d * b.d)
RDiv(a, b) == R(a.n * b.d, a.d * b.n)
RLe(a, b)  == a.n * b.d <= b.n * a.d

None    == [t |-> "None"]
Num(r)  == [t |-> "num", v |-> r]
Str(s)  == [t |-> "str", s |-> s]
PyInt(n)  == Num(R(n, 1))
List(s) == [items |-> s]

\* a raised exception: its class and str(e)
Exception(type, msg) == [type |-> type, msg |-> msg]

\* bool(x) of Python for the values above
Truthy(x) ==
    CASE x.t = "None" -> FALSE
      [] x.t = "num"  -> x.v.n # 0
      [] x.t = "str"  -> x.s # ""

\* x != 0 of Python: None and strings differ from 0
NotZero(x) == IF x.t = "num" THEN x.v.n # 0 ELSE TRUE

----------------------------------------------------------------------------
(* ParameterSet: a dict from parameter name to value.                      *)

AmbientTemperature == "Ambient temperature [K]"
NominalCapacity    == "Nominal cell capacity [A.h]"
ElectrodeHeight    == "Electrode height [m]"
PosThickness       == "Positive electrode thickness [m]"
PrimaryFraction    == "Primary: Negative electrode active material volume fraction"
SecondaryFraction  == "Secondary: Negative electrode active material volume fraction"
PrimaryMaxConc     == "Primary: Maximum concentration in negative electrode [mol.m-3]"
PrimaryInitConc    == "Primary: Initial concentration in negative electrode [mol.m-3]"
PrimaryDiffusivity == "Primary: Negative electrode diffusivity [m2.s-1]"
SecondaryDiffusivity == "Secondary: Negative electrode diffusivity [m2.s-1]"
SecondaryInitConc  == "Secondary: Initial concentration in negative electrode [mol.m-3]"
SecondaryMaxConc   == "Secondary: Maximum concentration in negative electrode [mol.m-3]"

ParameterNames ==
    {AmbientTemperature, NominalCapacity, ElectrodeHeight, PosThickness,
     PrimaryFraction, SecondaryFraction, PrimaryMaxConc, PrimaryInitConc,
     PrimaryDiffusivity, SecondaryDiffusivity, SecondaryInitConc,
     SecondaryMaxConc}

\* parameters.update({name: value}) for a name the set already holds
Update(p, name, value) == [p EXCEPT ![name] = value]

\* pybamm.ParameterValues("Chen2020_composite"): the composite-electrode set
\* the handler starts from (values of the library's data file)
Chen2020_composite ==
    [k \in ParameterNames |->
        CASE k = AmbientTemperature   -> Num(R(29815, 100))
          [] k = NominalCapacity      -> PyInt(5)
          [] k = ElectrodeHeight      -> Num(R(65, 1000))
          [] k = PosThickness         -> Num(R(756, 10000000))
          [] k = PrimaryFraction      -> Num(R(735, 1000))
          [] k = SecondaryFraction    -> Num(R(15, 1000))
          [] k = PrimaryMaxConc       -> PyInt(28700)
          [] k = PrimaryInitConc      -> PyInt(27700)
          [] k = PrimaryDiffusivity   -> Str("5.5e-14")
          [] k = SecondaryDiffusivity -> Str("1.67e-14")
          [] k = SecondaryInitConc    -> PyInt(276610)
          [] k = SecondaryMaxConc     -> PyInt(278000)]

\* a second base set, with unit capacity and height
UnitCell ==
    [Chen2020_composite EXCEPT ![NominalCapacity] = PyInt(1),
                               ![ElectrodeHeight] = PyInt(1),
                               ![AmbientTemperature] = PyInt(300)]

BaseParameterSets == {Chen2020_composite, UnitCell}

\* lab2.py 26-35: the six composite-electrode values the handler sets
Lab2Overrides(p) ==
    [k \in ParameterNames |->
        CASE k = PrimaryMaxConc       -> PyInt(28700)
          [] k = PrimaryInitConc      -> PyInt(23000)
          [] k = PrimaryDiffusivity   -> Str("5.5e-14")
          [] k = SecondaryDiffusivity -> Str("1.67e-14")
          [] k = SecondaryInitConc    -> PyInt(277000)
          [] k = SecondaryMaxConc     -> PyInt(278000)
          [] OTHER                    -> p[k]]

\* an override the truthiness test reads as "not provided"
FalsyOverrides == {None, PyInt(0), Str("")}

TemperatureOverrides == FalsyOverrides \cup {PyInt(298), Str("hot")}
CapacityOverrides    == FalsyOverrides \cup {PyInt(2), Num(R(5, 2)), Str("big")}
ThicknessOverrides   == FalsyOverrides \cup {Num(R(1, 10000)), Str("thin")}
SiliconOverrides     ==
    {None, Str(""), Str("half")} \cup {Num(R(k, PGrid)) : k \in 0 .. PGrid}

\* utils.py 149-157: the capacity override, as an electrode-height override
CapacityToHeight(p, capacity) ==
    RMul(p[ElectrodeHeight].v, RDiv(capacity.v, p[NominalCapacity].v))

\* mutant: the percentage is not halved before the split
SiliconSplitNotHalved(p, silicon_percent) ==
    Update(Update(p, PrimaryFraction, Num(RSub(R(1, 1), silicon_percent.v))),
           SecondaryFraction, Num(silicon_percent.v))

\* utils.py 160-171: the silicon split written into the set
SiliconSplit(p, silicon_percent) ==
    LET half == RMul(silicon_percent.v, R(1, 2))
    IN  Update(Update(p, PrimaryFraction, Num(RSub(R(1, 1), half))),
               SecondaryFraction, Num(half))

\* mutant: a zero temperature counts as provided
TemperatureProvidedAlways(temperature) == temperature.t # "None"

\* utils.py 147: "if temperature and temperature != 0"
TemperatureProvided(temperature) == Truthy(temperature) /\ NotZero(temperature)

\* update_parameters: the set after the call and the exception it raised
UpdateParameters(p, temperature, capacity, PosElectrodeThickness, silicon_percent) ==
    LET p1 == IF TemperatureProvided(temperature)
              THEN Update(p, AmbientTemperature, temperature)
              ELSE p
        doCap == Truthy(capacity) /\ NotZero(capacity)
        capExc ==
            IF ~doCap THEN None
            ELSE IF capacity.t # "num"
            THEN Exception("TypeError",
                           "unsupported operand type(s) for /: 'str' and 'float'")
            ELSE IF p1[NominalCapacity].v.n = 0
            THEN Exception("ZeroDivisionError", "float division by zero")
            ELSE None
        p2 == IF doCap /\ capExc = None
              THEN Update(p1, ElectrodeHeight, Num(CapacityToHeight(p1, capacity)))
              ELSE p1
        p3 == IF Truthy(PosElectrodeThickness) /\ NotZero(PosElectrodeThickness)
              THEN Update(p2, PosThickness, PosElectrodeThickness)
              ELSE p2
        doSil == Truthy(silicon_percent)
        silExc ==
            IF doSil /\ silicon_percent.t # "num"
            THEN Exception("TypeError",
                           "can't multiply sequence by non-int of type 'float'")
            ELSE None
        p4 == IF doSil /\ silExc = None THEN SiliconSplit(p3, silicon_percent) ELSE p3
    IN  IF capExc # None THEN [parameters |-> p1, exc |-> capExc]
        ELSE IF silExc # None THEN [parameters |-> p3, exc |-> silExc]
        ELSE [parameters |-> p4, exc |-> None]

----------------------------------------------------------------------------
(* SpecParams: one call of update_parameters on drawn arguments.           *)

Idle ==
    /\ locals = None
    /\ solverCalls = << >>
    /\ result = None
    /\ exc = None

InitParams ==
    /\ pc = "update_parameters"
    /\ args \in [parameters : BaseParameterSets,
                 temperature : TemperatureOverrides,
                 capacity : CapacityOverrides,
                 PosElectrodeThickness : ThicknessOverrides,
                 silicon_percent : SiliconOverrides]
    /\ parameters = args.parameters
    /\ Idle

update_parameters ==
    /\ pc = "update_parameters"
    /\ LET r == UpdateParameters(parameters, args.temperature, args.capacity,
                                 args.PosElectrodeThickness, args.silicon_percent)
       IN  /\ parameters' = r.parameters
           /\ exc' = r.exc
           /\ pc' = IF r.exc = None THEN "returned" ELSE "raised"
    /\ UNCHANGED <<args, locals, solverCalls, result>>

NextParams == update_parameters

SpecParams == InitParams /\ [][NextParams]_vars

----------------------------------------------------------------------------
(* Solution: what the solver returns.  solution.cycles is a list of        *)
(* cycles; cycle[name].entries holds the samples of one variable.          *)

LithiumPositive    == "Total lithium in positive electrode [mol]"
LithiumNegative    == "Total lithium in negative electrode [mol]"
LithiumTotal       == "Total lithium [mol]"
ThroughputCapacity == "Throughput capacity [A.h]"
DischargeCapacity  == "Discharge capacity [A.h]"
Voltage            == "Voltage [V]"

CycleVariables ==
    {LithiumPositive, LithiumNegative, LithiumTotal, ThroughputCapacity}

VariableIndex(v) ==
    CASE v = LithiumPositive    -> 1
      [] v = LithiumNegative    -> 2
      [] v = LithiumTotal       -> 3
      [] v = ThroughputCapacity -> 4
      [] v = DischargeCapacity  -> 5
      [] v = Voltage            -> 6

\* the k-th sample of variable v in the i-th solve or cycle: every sample of
\* a Solution is a different number, so a reordering or a loss is visible
Sample(v, i, k) == VariableIndex(v) * 100 + i * 10 + k

\* a Solution whose i-th cycle holds shape[i] samples of each variable
SolutionOf(shape, variables) ==
    [cycles |->
        [i \in 1 .. Len(shape) |->
            [v \in variables |->
                [entries |-> [k \in 1 .. shape[i] |-> Sample(v, i, k)]]]]]

Shapes == UNION {[1 .. k -> 0 .. MaxSamples] : k \in 0 .. MaxCycles}

\* the solver may stop early and may not know every variable asked for
Solutions ==
    {SolutionOf(shape, variables) :
        shape \in Shapes,
        variables \in {CycleVariables, CycleVariables \ {LithiumTotal},
                       CycleVariables \ {ThroughputCapacity}}}

\* cycle[variable_name] raises KeyError for a variable the cycle lacks
Lacks(sol, variable_name) ==
    \E i \in 1 .. Len(sol.cycles) : variable_name \notin DOMAIN sol.cycles[i]

KeyError(variable_name) == Exception("KeyError", "'" \o variable_name \o "'")

RECURSIVE Flatten(_, _, _)
\* utils.py 79-80 / 124-125: function += cycle[variable_name].entries.tolist()
Flatten(cycles, variable_name, function) ==
    IF cycles = << >> THEN function
    ELSE Flatten(Tail(cycles), variable_name,
                 function \o Head(cycles)[variable_name].entries)

\* np.linspace(start, stop, num), endpoint included: num = 1 yields [start]
Linspace(start, stop, num) ==
    LET div  == num - 1
        step == IF div > 0 THEN RDiv(RSub(stop, start), R(div, 1)) ELSE R(0, 1)
    IN  [i \in 1 .. num |->
            IF num > 1 /\ i = num THEN stop
            ELSE RAdd(start, RMul(R(i - 1, 1), step))]

\* the {"name": "Cycle", "values": ...} axis entry
CycleAxis(number_of_cycles, length) ==
    [name |-> "Cycle",
     values |-> List(Linspace(R(0, 1), R(number_of_cycles, 1), length))]

\* mutant: the axis ends at the number of cycles the Solution holds
PlotAgainstCycleOwnCount(sol, number_of_cycles, variable_name, func_name) ==
    IF Lacks(sol, variable_name)
    THEN [ret |-> None, exc |-> KeyError(variable_name)]
    ELSE LET function == Flatten(sol.cycles, variable_name, << >>)
         IN  [ret |-> List(<<CycleAxis(Len(sol.cycles), Len(function)),
                             [name |-> variable_name, fname |-> func_name,
                              values |-> List(function)]>>),
              exc |-> None]

\* plot_against_cycle: the graphs list it returns, or the exception
PlotAgainstCycle(sol, number_of_cycles, variable_name, func_name) ==
    IF Lacks(sol, variable_name)
    THEN [ret |-> None, exc |-> KeyError(variable_name)]
    ELSE LET function == Flatten(sol.cycles, variable_name, << >>)
         IN  [ret |-> List(<<CycleAxis(number_of_cycles, Len(function)),
                             [name |-> variable_name, fname |-> func_name,
                              values |-> List(function)]>>),
              exc |-> None]

RECURSIVE PlotGraphsLoop(_, _, _, _, _)
\* the loop of plot_graphs_against_cycle over the remaining variables; each
\* is a <<variable_name, display name>> pair of the ordered mapping.
\* y_axis_name is assigned once and kept for the later iterations.
PlotGraphsLoop(sol, number_of_cycles, variables, y_axis_name, gs) ==
    IF variables = << >> THEN [ret |-> List(gs), exc |-> None]
    ELSE LET variable_name == Head(variables)[1]
             y == IF y_axis_name = None THEN Str(variable_name) ELSE y_axis_name
         IN  IF Lacks(sol, variable_name)
             THEN [ret |-> None, exc |-> KeyError(variable_name)]
             ELSE LET function == Flatten(sol.cycles, variable_name, << >>)
                  IN  PlotGraphsLoop(sol, number_of_cycles, Tail(variables), y,
                          gs \o <<CycleAxis(number_of_cycles, Len(function)),
                                  [name |-> y.s, fname |-> Head(variables)[2],
                                   values |-> List(function)]>>)

\* plot_graphs_against_cycle
PlotGraphsAgainstCycle(sol, number_of_cycles, variables, y_axis_name) ==
    PlotGraphsLoop(sol, number_of_cycles, variables, y_axis_name, << >>)

\* lab2.py 64: the ordered mapping from variable to display name
plots ==
    <<<<LithiumPositive, "Positive">>, <<LithiumNegative, "Negative">>,
      <<LithiumTotal, "Total">>>>

\* ordered mappings a caller may pass
VariableMappings ==
    {<< >>, <<plots[2]>>, <<plots[1], plots[2]>>, plots,
     <<plots[3], plots[1]>>}

----------------------------------------------------------------------------
(* SpecCycle: one call of plot_against_cycle or plot_graphs_against_cycle. *)

InitCycle ==
    /\ \/ /\ pc = "plot_against_cycle"
          /\ args \in [solution : Solutions,
                       number_of_cycles : 0 .. MaxRequested,
                       variable_name : {ThroughputCapacity, LithiumTotal},
                       func_name : {"Capacity"}]
       \/ /\ pc = "plot_graphs_against_cycle"
          /\ args \in [solution : Solutions,
                       number_of_cycles : 0 .. MaxRequested,
                       variables : VariableMappings,
                       y_axis_name : {None, Str("Lithium [mol]")}]
    /\ parameters = None
    /\ Idle

plot_against_cycle ==
    /\ pc = "plot_against_cycle"
    /\ LET r == PlotAgainstCycle(args.solution, args.number_of_cycles,
                                 args.variable_name, args.func_name)
       IN  /\ result' = r.ret
           /\ exc' = r.exc
           /\ pc' = IF r.exc = None THEN "returned" ELSE "raised"
    /\ UNCHANGED <<args, parameters, locals, solverCalls>>

plot_graphs_against_cycle ==
    /\ pc = "plot_graphs_against_cycle"
    /\ LET r == PlotGraphsAgainstCycle(args.solution, args.number_of_cycles,
                                       args.variables, args.y_axis_name)
       IN  /\ result' = r.ret
           /\ exc' = r.exc
           /\ pc' = IF r.exc = None THEN "returned" ELSE "raised"
    /\ UNCHANGED <<args, parameters, locals, solverCalls>>

NextCycle == plot_against_cycle \/ plot_graphs_against_cycle

SpecCycle == InitCycle /\ [][NextCycle]_vars

----------------------------------------------------------------------------
(* The rate sweep: get_voltage_limits and run_charging_experiments.        *)

\* utils.py 6-13: the battery titles of the front end
batteries == {"NMC", "NCA", "LFP", "LG M50", "Silicon", "LFPBackup"}

\* a Python tuple
Tuple(a, b) == [t |-> "tuple", items |-> <<a, b>>]

\* mutant: the NMC limits are returned as (max, min)
GetVoltageLimitsSwapped(battery_type) ==
    CASE battery_type = "LFP" -> Tuple(R(25, 10), R(365, 100))
      [] battery_type = "NMC" -> Tuple(R(42, 10), R(3, 1))
      [] battery_type = "NCA" -> Tuple(R(25, 10), R(43, 10))
      [] OTHER -> None

\* mutant: an unlisted chemistry gets the NMC limits
GetVoltageLimitsDefaulted(battery_type) ==
    CASE battery_type = "LFP" -> Tuple(R(25, 10), R(365, 100))
      [] battery_type = "NCA" -> Tuple(R(25, 10), R(43, 10))
      [] OTHER -> Tuple(R(3, 1), R(42, 10))

\* get_voltage_limits: (minV, maxV), or None when no branch returns
get_voltage_limits(battery_type) ==
    CASE battery_type = "LFP" -> Tuple(R(25, 10), R(365, 100))
      [] battery_type = "NMC" -> Tuple(R(3, 1), R(42, 10))
      [] battery_type = "NCA" -> Tuple(R(25, 10), R(43, 10))
      [] OTHER -> None

\* str() of a number whose denominator divides 10
PyStr(r) ==
    IF r.d = 1 THEN ToString(r.n)
    ELSE ToString(r.n \div r.d) \o "." \o ToString(((r.n % r.d) * 10) \div r.d)

\* utils.py 175: mode.capitalize()[:-1] + "ing at different C Rates"
SweepTitle(mode) ==
    (CASE mode = "Charge" -> "Charg" [] mode = "Discharge" -> "Discharg")
        \o "ing at different C Rates"

\* the C-rates a request may name
Rates == {R(1, 2), R(1, 1), R(2, 1)}

RateLists == UNION {[1 .. m -> Rates] : m \in 0 .. MaxRates}

\* utils.py 183-194: the single-step experiment, the initial state of charge
\* and the capacity variable of one rate; the step is held as the fields the
\* library parses from the string
SweepStep(mode, c_rate, minV, maxV) ==
    IF mode = "Charge"
    THEN [experiment |-> <<[op |-> "Charge", rate |-> RAdd(c_rate, R(1, 100)),
                            hours |-> 100, until |-> maxV]>>,
          initial_soc |-> 0, y_axis_label |-> ThroughputCapacity]
    ELSE [experiment |-> <<[op |-> "Discharge", rate |-> RAdd(c_rate, R(1, 100)),
                            hours |-> 100, until |-> minV]>>,
          initial_soc |-> 1, y_axis_label |-> DischargeCapacity]

\* the Solution of the i-th solve, holding n samples of each variable
SweepSolution(i, n) ==
    [v \in {ThroughputCapacity, DischargeCapacity, Voltage} |->
        [entries |-> [k \in 1 .. n |-> Sample(v, i, k)]]]

\* mutant: the voltage trace is appended before the capacity trace
SweepGraphsVoltageFirst(sol, y_axis_label, c_rate) ==
    <<[name |-> Voltage, fname |-> PyStr(c_rate) \o "C",
       values |-> List(sol[Voltage].entries)],
      [name |-> y_axis_label, values |-> List(sol[y_axis_label].entries)]>>

\* utils.py 202-211: the two graphs appended for one rate
SweepGraphs(sol, y_axis_label, c_rate) ==
    <<[name |-> y_axis_label, values |-> List(sol[y_axis_label].entries)],
      [name |-> Voltage, fname |-> PyStr(c_rate) \o "C",
       values |-> List(sol[Voltage].entries)]>>

InitSweep ==
    /\ pc = "run_charging_experiments"
    /\ args \in [battery_type : batteries,
                 c_rates : RateLists,
                 mode : {"Charge", "Discharge"},
                 parameters : {Chen2020_composite}]
    /\ parameters = args.parameters
    /\ Idle

\* utils.py 175-180: the title, the model, the solver and the voltage limits
sweep_begin ==
    /\ pc = "run_charging_experiments"
    /\ LET limits == get_voltage_limits(args.battery_type)
       IN  IF limits = None
           THEN /\ exc' = Exception("TypeError",
                                    "cannot unpack non-iterable NoneType object")
                /\ pc' = "raised"
                /\ locals' = [experiment_result |-> <<[title |-> SweepTitle(args.mode)]>>,
                              graphs |-> << >>, y_axis_label |-> None]
           ELSE /\ exc' = exc
                /\ pc' = "for c_rate"
                /\ locals' = [experiment_result |-> <<[title |-> SweepTitle(args.mode)]>>,
                              graphs |-> << >>, y_axis_label |-> None,
                              minV |-> limits.items[1], maxV |-> limits.items[2],
                              next |-> 1]
    /\ UNCHANGED <<args, parameters, solverCalls, result>>

\* utils.py 181-211: one iteration of the loop; the solver returns a Solution
\* or raises
sweep_rate ==
    /\ pc = "for c_rate"
    /\ locals.next <= Len(args.c_rates)
    /\ LET c_rate == args.c_rates[locals.next]
           step == SweepStep(args.mode, c_rate, locals.minV, locals.maxV)
           call == [model |-> "SPM", experiment |-> step.experiment,
                    initial_soc |-> step.initial_soc, solver |-> "fast"]
       IN  /\ solverCalls' = Append(solverCalls, call)
           /\ \/ /\ exc' = Exception("SolverError", "solver failed")
                 /\ pc' = "raised"
                 /\ locals' = [locals EXCEPT !.y_axis_label = Str(step.y_axis_label)]
              \/ \E n \in 1 .. MaxSamples :
                    /\ exc' = exc
                    /\ pc' = pc
                    /\ locals' =
                         [locals EXCEPT
                            !.y_axis_label = Str(step.y_axis_label),
                            !.graphs = @ \o SweepGraphs(SweepSolution(locals.next, n),
                                                        step.y_axis_label, c_rate),
                            !.next = @ + 1]
    /\ UNCHANGED <<args, parameters, result>>

\* mutant: the graphs are stored in the title object itself
SweepResultOneObject(experiment_result, gs) ==
    List(<<[title |-> experiment_result[1].title, graphs |-> List(gs)]>>)

\* utils.py 213-214: experiment_result with the graphs object appended
SweepResult(experiment_result, gs) ==
    List(Append(experiment_result, [graphs |-> List(gs)]))

\* utils.py 213-214: the loop is over; the graphs are appended and returned
sweep_return ==
    /\ pc = "for c_rate"
    /\ locals.next > Len(args.c_rates)
    /\ result' = SweepResult(locals.experiment_result, locals.graphs)
    /\ pc' = "returned"
    /\ UNCHANGED <<args, parameters, locals, solverCalls, exc>>

NextSweep == sweep_begin \/ sweep_rate \/ sweep_return

SpecSweep == InitSweep /\ [][NextSweep]_vars

----------------------------------------------------------------------------
(* Spec: the request handler simulate_lab2.                                *)

\* lab2.py 13
cycles == 3

\* flask's jsonify: a response whose JSON body is the value given
Jsonify(value) == [mimetype |-> "application/json", json |-> value]

\* the bodies a request may carry: not JSON at all, JSON null, or an object
\* with any of the three recognised fields
Requests ==
    {[body |-> "malformed"], [body |-> "null"]} \cup
    {[body |-> "object",
      temperature |-> t, silicon_percent |-> s, c_rates |-> c] :
        t \in {None, PyInt(298)},
        s \in {None, Str("half")} \cup {Num(R(k, PGrid)) : k \in 0 .. PGrid},
        c \in {None, List(<<R(2, 1)>>)}}

\* lab2.py 41-50: the three-step cycle template, repeated
cycling_experiment ==
    [i \in 1 .. cycles |->
        <<[step |-> "Discharge at 1 C for 10 hours or until 3.0 V",
           period |-> "1 hour"],
          [step |-> "Charge at 1 C until 4.1 V", period |-> "30 minutes"],
          [step |-> "Hold at 4.1 V until 50 mA", period |-> "30 minutes"]>>]

Init ==
    /\ pc = "simulate_lab2"
    /\ args \in [request : Requests]
    /\ parameters = None
    /\ Idle

\* the except clause is entered with the exception raised
Raise(e) ==
    /\ exc' = e
    /\ pc' = "except"

\* lab2.py 9-14: the request fields are read
lab2_read ==
    /\ pc = "simulate_lab2"
    /\ LET request == args.request
       IN  CASE request.body = "malformed" ->
                  /\ Raise(Exception("BadRequest", "400 Bad Request"))
                  /\ UNCHANGED locals
             [] request.body = "null" ->
                  /\ Raise(Exception("AttributeError",
                                     "'NoneType' object has no attribute 'get'"))
                  /\ UNCHANGED locals
             [] OTHER ->
                  /\ locals' = [temperature |-> request.temperature,
                                c_rates |-> IF request.c_rates = None
                                            THEN List(<<R(1, 1)>>)
                                            ELSE request.c_rates,
                                cycles |-> cycles,
                                silicon_percent |-> request.silicon_percent]
                  /\ pc' = "parameters"
                  /\ exc' = exc
    /\ UNCHANGED <<args, parameters, solverCalls, result>>

\* lab2.py 16-36: the model, the base ParameterSet and the merge
lab2_parameters ==
    /\ pc = "parameters"
    /\ LET r == UpdateParameters(Lab2Overrides(Chen2020_composite),
                                 locals.temperature, None, None,
                                 locals.silicon_percent)
       IN  /\ parameters' = r.parameters
           /\ IF r.exc = None
              THEN pc' = "experiment" /\ exc' = exc
              ELSE Raise(r.exc)
    /\ UNCHANGED <<args, locals, solverCalls, result>>

\* lab2.py 39-58: the solver, the experiment and the simulation are built;
\* the library may refuse them
lab2_experiment ==
    /\ pc = "experiment"
    /\ \/ /\ locals' = [f \in DOMAIN locals \cup {"cycling_experiment"} |->
                           IF f = "cycling_experiment" THEN cycling_experiment
                           ELSE locals[f]]
          /\ pc' = "solve"
          /\ exc' = exc
       \/ /\ Raise(Exception("ModelError", "simulation could not be built"))
          /\ UNCHANGED locals
    /\ UNCHANGED <<args, parameters, solverCalls, result>>

\* lab2.py 60-62: the solver runs; it returns a Solution or raises
lab2_solve ==
    /\ pc = "solve"
    /\ solverCalls' = Append(solverCalls,
                             [model |-> "DFN",
                              experiment |-> locals.cycling_experiment,
                              parameter_values |-> parameters,
                              solver |-> "safe"])
    /\ \/ \E sol \in Solutions :
            /\ locals' = [f \in DOMAIN locals \cup {"sol"} |->
                             IF f = "sol" THEN sol ELSE locals[f]]
            /\ pc' = "experiment_result1"
            /\ exc' = exc
       \/ /\ Raise(Exception("SolverError", "solver failed"))
          /\ UNCHANGED locals
    /\ UNCHANGED <<args, parameters, result>>

\* lab2.py 64-65: the lithium group
lab2_experiment_result1 ==
    /\ pc = "experiment_result1"
    /\ LET r == PlotGraphsAgainstCycle(locals.sol, 3, plots, None)
       IN  IF r.exc = None
           THEN /\ locals' = [f \in DOMAIN locals \cup {"experiment_result1"} |->
                                 IF f = "experiment_result1"
                                 THEN List(<<[title |-> "Total Lithium in electrodes"],
                                             [graphs |-> r.ret]>>)
                                 ELSE locals[f]]
                /\ pc' = "experiment_result2"
                /\ exc' = exc
           ELSE /\ Raise(r.exc)
                /\ UNCHANGED locals
    /\ UNCHANGED <<args, parameters, solverCalls, result>>

\* lab2.py 66-67: the capacity group
lab2_experiment_result2 ==
    /\ pc = "experiment_result2"
    /\ LET r == PlotAgainstCycle(locals.sol, locals.cycles,
                                 ThroughputCapacity, "Capacity")
       IN  IF r.exc = None
           THEN /\ locals' = [f \in DOMAIN locals \cup {"experiment_result2"} |->
                                 IF f = "experiment_result2"
                                 THEN List(<<[title |-> "Capacity over Cycles"],
                                             [graphs |-> r.ret]>>)
                                 ELSE locals[f]]
                /\ pc' = "return"
                /\ exc' = exc
           ELSE /\ Raise(r.exc)
                /\ UNCHANGED locals
    /\ UNCHANGED <<args, parameters, solverCalls, result>>

\* mutant: the groups built before the failure are kept in the error body
ErrorBodyKeepingGroups(e, l) ==
    List((IF l # None /\ "experiment_result1" \in DOMAIN l
          THEN <<l.experiment_result1>> ELSE << >>)
         \o <<"ERROR: " \o e.msg>>)

\* lab2.py 76: the body of the error response
ErrorBody(e, l) == List(<<"ERROR: " \o e.msg>>)

\* mutant: the two groups are merged into one list
FinalResultFlattened(l) ==
    List(l.experiment_result1.items \o l.experiment_result2.items)

\* lab2.py 68-71: final_result
FinalResult(l) == List(<<l.experiment_result1, l.experiment_result2>>)

\* lab2.py 68-72: the groups are assembled and returned
lab2_return ==
    /\ pc = "return"
    /\ result' = Jsonify(FinalResult(locals))
    /\ pc' = "returned"
    /\ UNCHANGED <<args, parameters, locals, solverCalls, exc>>

\* lab2.py 74-76: any exception of the body becomes the error response
lab2_except ==
    /\ pc = "except"
    /\ result' = Jsonify(ErrorBody(exc, locals))
    /\ pc' = "returned"
    /\ UNCHANGED <<args, parameters, locals, solverCalls, exc>>

Next ==
    \/ lab2_read
    \/ lab2_parameters
    \/ lab2_experiment
    \/ lab2_solve
    \/ lab2_experiment_result1
    \/ lab2_experiment_result2
    \/ lab2_return
    \/ lab2_except

Spec == Init /\ [][Next]_vars

----------------------------------------------------------------------------
(* Properties.                                                             *)

\* an override the specification calls absent, zero or empty
Absent(o) == o = None \/ o = PyInt(0) \/ o = Str("")

NonZeroNumber(o) == o.t = "num" /\ o.v.n # 0

ParamsDone == pc \in {"returned", "raised"}

\* C2: update_parameters changes a parameter only when its override is present
\* and non-zero/non-empty.  An absent, zero or empty override leaves the
\* parameters it targets at their prior values, parameters no override targets
\* never change, and a call whose overrides are all absent, zero or empty
\* changes nothing; a provided temperature or thickness is written as given, a
\* non-zero capacity rescales the electrode height only, and a non-zero silicon
\* percentage rewrites the two volume fractions only.
C2_MergeOverridesOnlyProvided ==
    ParamsDone =>
        LET old == args.parameters
            new == parameters
            Same(k) == new[k] = old[k]
        IN  /\ \A k \in ParameterNames \ {AmbientTemperature, ElectrodeHeight,
                   PosThickness, PrimaryFraction, SecondaryFraction} : Same(k)
            /\ Absent(args.temperature) => Same(AmbientTemperature)
            /\ Absent(args.capacity) => Same(ElectrodeHeight)
            /\ Absent(args.PosElectrodeThickness) => Same(PosThickness)
            /\ Absent(args.silicon_percent) =>
                    Same(PrimaryFraction) /\ Same(SecondaryFraction)
            /\ ~Absent(args.temperature) =>
                    new[AmbientTemperature] = args.temperature
            /\ pc = "returned" =>
                /\ ~Absent(args.PosElectrodeThickness) =>
                        new[PosThickness] = args.PosElectrodeThickness
                /\ NonZeroNumber(args.capacity) =>
                        new[ElectrodeHeight] =
                            Num(RDiv(RMul(old[ElectrodeHeight].v, args.capacity.v),
                                     old[NominalCapacity].v))
                /\ NonZeroNumber(args.silicon_percent) =>
                        LET half == RDiv(args.silicon_percent.v, R(2, 1))
                        IN  /\ new[PrimaryFraction] = Num(RSub(R(1, 1), half))
                            /\ new[SecondaryFraction] = Num(half)

\* C2 witness: a zero temperature beside a non-zero capacity: the temperature
\* is kept and the height is rescaled
C2_Witness ==
    /\ pc = "returned"
    /\ args.temperature = PyInt(0)
    /\ args.capacity = PyInt(2)
    /\ args.parameters = UnitCell
    /\ parameters[AmbientTemperature] = PyInt(300)
    /\ parameters[ElectrodeHeight] = PyInt(2)

Fractions(p) == <<p[PrimaryFraction].v, p[SecondaryFraction].v>>

SplitOf(p) == <<RSub(R(1, 1), RDiv(p, R(2, 1))), RDiv(p, R(2, 1))>>

InUnitInterval(o) == o.t = "num" /\ RLe(R(0, 1), o.v) /\ RLe(o.v, R(1, 1))

\* C4 as stated: for every silicon percentage p in [0, 1] the two volume
\* fractions after update_parameters are (1 - p/2, p/2) and sum to 1.
C4_SplitForEveryP ==
    (pc = "returned" /\ InUnitInterval(args.silicon_percent)) =>
        /\ Fractions(parameters) = SplitOf(args.silicon_percent.v)
        /\ RAdd(Fractions(parameters)[1], Fractions(parameters)[2]) = R(1, 1)

\* C4 amended: for every silicon percentage p with 0 < p <= 1 the two volume
\* fractions after update_parameters are (1 - p/2, p/2) and sum to 1; for
\* p = 0 both fractions keep their prior values.
C4_SplitForPositiveP ==
    (pc = "returned" /\ InUnitInterval(args.silicon_percent)) =>
        IF args.silicon_percent.v.n # 0
        THEN /\ Fractions(parameters) = SplitOf(args.silicon_percent.v)
             /\ RAdd(Fractions(parameters)[1], Fractions(parameters)[2]) = R(1, 1)
        ELSE Fractions(parameters) = Fractions(args.parameters)

\* C4 witness: p = 1/2 was split into (3/4, 1/4)
C4_Witness ==
    /\ pc = "returned"
    /\ args.silicon_percent = Num(R(1, 2))
    /\ Fractions(parameters) = <<R(3, 4), R(1, 4)>>

----------------------------------------------------------------------------

RECURSIVE Sum(_)
Sum(lens) == IF lens = << >> THEN 0 ELSE Head(lens) + Sum(Tail(lens))

\* the sample counts of a variable, cycle by cycle
CycleLengths(sol, v) ==
    [i \in 1 .. Len(sol.cycles) |-> Len(sol.cycles[i][v].entries)]

\* values holds the samples of v cycle by cycle, in cycle order, each once
IsFlattening(values, sol, v) ==
    LET lens == CycleLengths(sol, v)
    IN  /\ Len(values) = Sum(lens)
        /\ \A i \in 1 .. Len(lens) : \A k \in 1 .. lens[i] :
               values[Sum(SubSeq(lens, 1, i - 1)) + k] = sol.cycles[i][v].entries[k]

\* axis starts at 0, ends at n and has equal steps
SpacedFromZeroTo(axis, n) ==
    /\ axis[1] = R(0, 1)
    /\ axis[Len(axis)] = R(n, 1)
    /\ \A j \in 1 .. Len(axis) - 1 :
           RSub(axis[j + 1], axis[j]) = RDiv(R(n, 1), R(Len(axis) - 1, 1))

PlotAgainstCycleCalled ==
    /\ "variable_name" \in DOMAIN args
    /\ pc # "plot_against_cycle"
    /\ ~Lacks(args.solution, args.variable_name)

\* what C3 says of the two Series apart from the spacing of the axis
C3_Shape ==
    /\ pc = "returned"
    /\ exc = None
    /\ Len(result.items) = 2
    /\ result.items[1].name = "Cycle"
    /\ result.items[2].name = args.variable_name
    /\ IsFlattening(result.items[2].values.items, args.solution, args.variable_name)
    /\ Len(result.items[1].values.items) = Len(result.items[2].values.items)

\* C3 as stated: for any Solution and requested count n, plot_against_cycle
\* returns a 'Cycle' axis and the cycle-order concatenation of the samples,
\* of equal length, the axis linearly spaced from 0 to n inclusive.
C3_AxisAlwaysReachesN ==
    PlotAgainstCycleCalled =>
        /\ C3_Shape
        /\ Len(result.items[1].values.items) >= 1 =>
               SpacedFromZeroTo(result.items[1].values.items, args.number_of_cycles)

\* C3 amended: as stated, but the axis runs from 0 to n inclusive only when
\* the flattened Series has at least two samples; with exactly one sample the
\* axis is the single value 0.
C3_AxisReachesNFromTwoSamples ==
    PlotAgainstCycleCalled =>
        /\ C3_Shape
        /\ Len(result.items[1].values.items) >= 2 =>
               SpacedFromZeroTo(result.items[1].values.items, args.number_of_cycles)
        /\ Len(result.items[1].values.items) = 1 =>
               result.items[1].values.items = <<R(0, 1)>>

\* C3 witness: cycles of 2 and 3 samples flattened against 3 requested cycles
C3_Witness ==
    /\ PlotAgainstCycleCalled
    /\ pc = "returned"
    /\ CycleLengths(args.solution, args.variable_name) = <<2, 3>>
    /\ args.number_of_cycles = 3
    /\ Len(result.items[2].values.items) = 5
    /\ result.items[1].values.items[5] = R(3, 1)

\* C10: plot_graphs_against_cycle without y_axis_name over v1..vn returns 2n
\* Series; for every i the pair 2i-1, 2i is a 'Cycle' axis and a value Series
\* named vi, with fname the display name of vi and the flattening of vi as
\* values, the axis of the same length.
C10_EachSeriesNamedByItsVariable ==
    (/\ "variables" \in DOMAIN args
     /\ pc = "returned"
     /\ args.y_axis_name = None) =>
        /\ Len(result.items) = 2 * Len(args.variables)
        /\ \A i \in 1 .. Len(args.variables) :
              LET axis  == result.items[2 * i - 1]
                  value == result.items[2 * i]
              IN  /\ axis.name = "Cycle"
                  /\ value.name = args.variables[i][1]
                  /\ value.fname = args.variables[i][2]
                  /\ IsFlattening(value.values.items, args.solution,
                                  args.variables[i][1])
                  /\ Len(axis.values.items) = Len(value.values.items)

----------------------------------------------------------------------------

Listed(battery_type) == battery_type \in {"LFP", "NMC", "NCA"}

SweepStarted == pc # "run_charging_experiments"

\* C5: the limits are (2.5, 3.65) for LFP, (3.0, 4.2) for NMC and (2.5, 4.3)
\* for NCA; for any other chemistry the sweep fails at the lookup of the
\* limits, before any solver call and without returning graphs.
C5_VoltageLimits ==
    SweepStarted =>
        IF Listed(args.battery_type)
        THEN /\ exc = None \/ exc.type = "SolverError"
             /\ <<locals.minV, locals.maxV>> =
                    CASE args.battery_type = "LFP" -> <<R(5, 2), R(73, 20)>>
                      [] args.battery_type = "NMC" -> <<R(3, 1), R(21, 5)>>
                      [] args.battery_type = "NCA" -> <<R(5, 2), R(43, 10)>>
        ELSE /\ pc = "raised"
             /\ exc = Exception("TypeError",
                                "cannot unpack non-iterable NoneType object")
             /\ solverCalls = << >>
             /\ result = None

\* C5 witness: a sweep of two rates for a chemistry without limits has failed
C5_Witness ==
    /\ pc = "raised"
    /\ args.battery_type = "Silicon"
    /\ Len(args.c_rates) = 2
    /\ solverCalls = << >>

Until(call) == call.experiment[1].until

\* C6 as stated: a discharge sweep builds, for every rate, an Experiment that
\* terminates at 2.5 V for LFP and at 4.2 V for NMC.
C6_DischargeNMCUntilMax ==
    args.mode = "Discharge" =>
        \A i \in 1 .. Len(solverCalls) :
            /\ args.battery_type = "LFP" => Until(solverCalls[i]) = R(5, 2)
            /\ args.battery_type = "NMC" => Until(solverCalls[i]) = R(21, 5)

\* C6 amended: a discharge sweep builds, for every rate, an Experiment that
\* terminates at 2.5 V for LFP and at 3.0 V for NMC; 4.2 V is the termination
\* voltage of a charge sweep for NMC.
C6_DischargeUntilMin ==
    /\ \A i \in 1 .. Len(solverCalls) :
          /\ solverCalls[i].experiment[1].op = args.mode
          /\ (args.mode = "Discharge" /\ args.battery_type = "LFP") =>
                 Until(solverCalls[i]) = R(5, 2)
          /\ (args.mode = "Discharge" /\ args.battery_type = "NMC") =>
                 Until(solverCalls[i]) = R(3, 1)
          /\ (args.mode = "Charge" /\ args.battery_type = "NMC") =>
                 Until(solverCalls[i]) = R(21, 5)
    /\ pc = "returned" => Len(solverCalls) = Len(args.c_rates)

\* C6 witness: a discharge sweep of two rates for NMC has returned
C6_Witness ==
    /\ pc = "returned"
    /\ args.mode = "Discharge"
    /\ args.battery_type = "NMC"
    /\ Len(solverCalls) = 2
    /\ Until(solverCalls[2]) = R(3, 1)

\* C7 as stated: with an empty list of C-rates run_charging_experiments fails
\* and returns nothing.
C7_EmptyRateListFails ==
    (args.c_rates = << >> /\ pc \in {"returned", "raised"}) =>
        /\ pc = "raised"
        /\ result = None

\* C7 amended: with an empty list of C-rates and a listed chemistry
\* run_charging_experiments raises no error: it returns, without a solver
\* call, the title object followed by a graphs object whose sequence is empty.
C7_EmptyRateListReturnsEmptyGraphs ==
    (args.c_rates = << >> /\ Listed(args.battery_type) /\ SweepStarted) =>
        /\ exc = None
        /\ solverCalls = << >>
        /\ pc \in {"for c_rate", "returned"}
        /\ pc = "returned" =>
              result = List(<<[title |-> IF args.mode = "Charge"
                                         THEN "Charging at different C Rates"
                                         ELSE "Discharging at different C Rates"],
                              [graphs |-> List(<< >>)]>>)

\* C7 witness: a sweep of no rates has returned
C7_Witness ==
    /\ pc = "returned"
    /\ args.c_rates = << >>
    /\ args.battery_type = "LFP"
    /\ result.items[2].graphs.items = << >>

\* the label the front end shows for a rate
RateLabel(r) ==
    CASE r = R(1, 2) -> "0.5C"
      [] r = R(1, 1) -> "1C"
      [] r = R(2, 1) -> "2C"

CapacityLabel == IF args.mode = "Charge" THEN ThroughputCapacity ELSE DischargeCapacity

\* C9: for rates r1..rm, a listed chemistry and a solver that succeeds, the
\* solver is invoked once per rate in list order, at ri + 0.01 and with initial
\* state of charge 0 for 'Charge' and 1 otherwise, and the result is one
\* titled group of 2m graphs: for each i the capacity Series then the
\* 'Voltage [V]' Series labelled ri followed by 'C', both of the i-th solve.
\* If the solver fails at rate ri the failure propagates, nothing is retried
\* and no graphs are returned.
C9_OneSolvePerRateInOrder ==
    /\ Len(solverCalls) <= Len(args.c_rates)
    /\ \A i \in 1 .. Len(solverCalls) :
          /\ solverCalls[i].experiment[1].rate = RAdd(args.c_rates[i], R(1, 100))
          /\ solverCalls[i].initial_soc = IF args.mode = "Charge" THEN 0 ELSE 1
    /\ pc = "returned" =>
          /\ Len(solverCalls) = Len(args.c_rates)
          /\ Len(result.items) = 2
          /\ DOMAIN result.items[1] = {"title"}
          /\ DOMAIN result.items[2] = {"graphs"}
          /\ Len(result.items[2].graphs.items) = 2 * Len(args.c_rates)
          /\ \A i \in 1 .. Len(args.c_rates) :
                LET capacity == result.items[2].graphs.items[2 * i - 1]
                    voltage  == result.items[2].graphs.items[2 * i]
                IN  /\ capacity.name = CapacityLabel
                    /\ voltage.name = Voltage
                    /\ voltage.fname = RateLabel(args.c_rates[i])
                    /\ Len(capacity.values.items) >= 1
                    /\ Len(voltage.values.items) = Len(capacity.values.items)
                    /\ \A k \in 1 .. Len(capacity.values.items) :
                          /\ capacity.values.items[k] = Sample(CapacityLabel, i, k)
                          /\ voltage.values.items[k] = Sample(Voltage, i, k)
    /\ (pc = "raised" /\ Listed(args.battery_type)) =>
          /\ exc = Exception("SolverError", "solver failed")
          /\ Len(solverCalls) >= 1
          /\ result = None

\* C9 witness: a charge sweep of the rates 2 and 0.5 has returned four graphs
C9_Witness ==
    /\ pc = "returned"
    /\ args.mode = "Charge"
    /\ args.c_rates = <<R(2, 1), R(1, 2)>>
    /\ Len(result.items[2].graphs.items) = 4
    /\ result.items[2].graphs.items[4].fname = "0.5C"

----------------------------------------------------------------------------

\* C1: whatever stage of simulate_lab2 raises a failure with message m, the
\* response body is exactly ["ERROR: " + m], holding no group built before
\* the failure, and simulate_lab2 itself never raises.
C1_ErrorResponse ==
    /\ pc # "raised"
    /\ exc # None => pc \in {"except", "returned"}
    /\ (pc = "returned" /\ exc # None) =>
          result = Jsonify(List(<<"ERROR: " \o exc.msg>>))
    /\ pc = "returned" => result # None

\* C1 witness: the second reducer failed after the first group was built, and
\* the error response was returned
C1_Witness ==
    /\ pc = "returned"
    /\ exc # None
    /\ "experiment_result1" \in DOMAIN locals
    /\ Len(result.json.items) = 1

Succeeded == pc = "returned" /\ exc = None

GraphsWellFormed(gs) ==
    /\ Len(gs.items) >= 1
    /\ gs.items[1].name = "Cycle"
    /\ \A j \in 1 .. Len(gs.items) :
          /\ {"name", "values"} \subseteq DOMAIN gs.items[j]
          /\ DOMAIN gs.items[j] \subseteq {"name", "fname", "values"}

\* C8 as stated: on success the response is a non-empty sequence of groups,
\* each one object carrying both 'title' and 'graphs', each graphs entry with
\* 'name' and 'values' (optionally 'fname'), the first entry named 'Cycle'.
C8_GroupIsOneObject ==
    Succeeded =>
        /\ Len(result.json.items) >= 1
        /\ \A g \in 1 .. Len(result.json.items) :
              LET group == result.json.items[g]
              IN  /\ {"title", "graphs"} \subseteq DOMAIN group
                  /\ GraphsWellFormed(group.graphs)

\* C8 amended: on success the response is a non-empty sequence of groups, each
\* a two-element sequence: an object holding only 'title', then an object
\* holding only 'graphs'; each graphs entry has 'name' and 'values'
\* (optionally 'fname') and the first entry is named 'Cycle'; the response
\* holds no error marker.
C8_GroupIsTitleThenGraphs ==
    Succeeded =>
        /\ Len(result.json.items) = 2
        /\ \A g \in 1 .. Len(result.json.items) :
              LET group == result.json.items[g]
              IN  /\ DOMAIN group = {"items"}
                  /\ Len(group.items) = 2
                  /\ DOMAIN group.items[1] = {"title"}
                  /\ DOMAIN group.items[2] = {"graphs"}
                  /\ GraphsWellFormed(group.items[2].graphs)

\* C8 witness: a request without overrides answered from a three-cycle Solution
C8_Witness ==
    /\ Succeeded
    /\ args.request.temperature = None
    /\ args.request.silicon_percent = None
    /\ Len(locals.sol.cycles) = 3
    /\ result.json.items[2].items[1].title = "Capacity over Cycles"

====
